---- MODULE Spec2Model ----
(***************************************************************************)
(* Model of the document processing core of s2-document-intelligence:      *)
(*   src/services/document_processor.py  (extraction, OCR fallback, sort)  *)
(*   src/cli.py                          (process_folder batch loop)       *)
(*   src/main.py                         (HTTP endpoints calling the core) *)
(*                                                                         *)
(* Conventions.                                                            *)
(*  - A string is a sequence of one-character strings, so that splitlines, *)
(*    strip and join are computed, not assumed.                            *)
(*  - A coordinate reported by a backend is a float; it is held here in    *)
(*    halves (the integer 3 is the float 1.5), so that int() truncates.    *)
(*  - A confidence is held in hundredths (100 is the float 1.0).           *)
(*  - An exception raised by a backend (PyMuPDF, OpenCV, an OCR engine) is *)
(*    an outcome the environment chooses.                                  *)
(*  - document_id, filename, width and height are copied through by the    *)
(*    code and take no part in any decision; they are left out.            *)
(***************************************************************************)
EXTENDS Integers, Sequences, FiniteSets, TLC

VARIABLES
    PYMUPDF_AVAILABLE,  \* document_processor.py:12-17
    PADDLE_AVAILABLE,   \* document_processor.py:20-25
    EASYOCR_AVAILABLE,  \* document_processor.py:27-32
    _paddle_ocr,         \* global _paddle_ocr (document_processor.py:40)
    _easy_ocr,           \* global _easy_ocr   (document_processor.py:41)
    paddle_made,        \* history: number of PaddleOCR(...) constructions completed
    easy_made,          \* history: number of easyocr.Reader(...) constructions completed
    mode,               \* which program runs the core: "service" (main.py), "cli" (cli.py), "threads"
    pc,                 \* position of the current processing call
    call,               \* arguments of the current processing call
    page_num,           \* loop variable of process_pdf_to_layout_json
    pages,              \* local list `pages` of process_pdf_to_layout_json
    result,             \* the returned document (the value json.dumps serialises)
    last,               \* history: what was done for the page processed last
    cause,              \* history: the statement that raised, for a call that raised
    cli,                \* process_folder: loop position, outcomes and files written
    th                  \* per thread: position inside the engine getters

vars == <<PYMUPDF_AVAILABLE, PADDLE_AVAILABLE, EASYOCR_AVAILABLE, _paddle_ocr, _easy_ocr,
          paddle_made, easy_made, mode, pc, call, page_num, pages, result, last, cause,
          cli, th>>

-----------------------------------------------------------------------------
(* Bounds of the model *)

MaxPages == 2
MaxBlocks == 2
MaxDocs == 2
NumThreads == 2

Langs == {"en", "fr"}

-----------------------------------------------------------------------------
(* Strings *)

IsSpace(c) == c \in {" ", "\n"}

\* str.strip() on one line
RECURSIVE LStrip(_)
LStrip(s) == IF s # <<>> /\ IsSpace(Head(s)) THEN LStrip(Tail(s)) ELSE s

RECURSIVE RStrip(_)
RStrip(s) ==
    IF s # <<>> /\ IsSpace(s[Len(s)]) THEN RStrip(SubSeq(s, 1, Len(s) - 1)) ELSE s

Strip(s) == RStrip(LStrip(s))

\* str.splitlines(): pieces between line breaks, no empty piece after a final break
RECURSIVE SplitAt(_, _)
SplitAt(s, cur) ==
    IF s = <<>> THEN (IF cur = <<>> THEN <<>> ELSE <<cur>>)
    ELSE IF Head(s) = "\n" THEN <<cur>> \o SplitAt(Tail(s), <<>>)
    ELSE SplitAt(Tail(s), Append(cur, Head(s)))

SplitLines(s) == SplitAt(s, <<>>)

\* "\n".join(lines)
RECURSIVE JoinLines(_)
JoinLines(lines) ==
    IF lines = <<>> THEN <<>>
    ELSE IF Len(lines) = 1 THEN lines[1]
    ELSE lines[1] \o <<"\n">> \o JoinLines(Tail(lines))

NonEmpty(ln) == ln # <<>>

\* [ln.strip() for ln in text_str.splitlines() if ln.strip()]
CleanLines(text) ==
    LET lines == SplitLines(text)
        stripped == [i \in 1..Len(lines) |-> Strip(lines[i])]
    IN  SelectSeq(stripped, NonEmpty)

IsBlank(text) == \A i \in 1..Len(text) : IsSpace(text[i])

-----------------------------------------------------------------------------
(* Numbers *)

\* int(x) of a float held in halves: truncation towards zero
IntOf(h) == IF h >= 0 THEN h \div 2 ELSE -((-h) \div 2)

\* float(conf): the value of a numeric score is kept
FloatOf(c) == c

RECURSIVE MinOf(_)
MinOf(s) == IF Len(s) = 1 THEN s[1]
            ELSE LET m == MinOf(Tail(s)) IN IF s[1] <= m THEN s[1] ELSE m

RECURSIVE MaxOf(_)
MaxOf(s) == IF Len(s) = 1 THEN s[1]
            ELSE LET m == MaxOf(Tail(s)) IN IF s[1] >= m THEN s[1] ELSE m

\* xs, ys, int(min(xs)), int(min(ys)), int(max(xs)), int(max(ys))
BBoxOf(points) ==
    LET xs == [i \in 1..Len(points) |-> points[i][1]]
        ys == [i \in 1..Len(points) |-> points[i][2]]
    IN  <<IntOf(MinOf(xs)), IntOf(MinOf(ys)), IntOf(MaxOf(xs)), IntOf(MaxOf(ys))>>

-----------------------------------------------------------------------------
(* What the backends can hand to the core *)

SeqsUpTo(S, n) == UNION {[1..k -> S] : k \in 0..n}

\* page.get_text("blocks"): tuples (x0, y0, x1, y1, text, ...); the last one is a
\* tuple too short to unpack, which the code skips
RawFragments ==
    { <<2, 1, 5, 3, <<"a">>>>,
      <<0, 2, 3, 4, <<" ", "b", "\n", " ", "\n", "c", " ">>>>,
      <<0, 0, 2, 2, <<" ", "\n", " ">>>>,
      <<0, 0, 2, 2>> }

\* How many fragments or detections a backend hands over for one page.  A page of
\* a single-page document or an image carries up to MaxBlocks of them; the pages of
\* a longer document carry at most one each, which keeps the documents explored
\* to a number TLC can enumerate (the page loop treats every page alike).
PerPage == IF call.kind = "pdf" /\ call.npages > 1 THEN 1 ELSE MaxBlocks

NativeInputs == SeqsUpTo(RawFragments, PerPage)

\* one detection of an OCR engine: bounding polygon, text, score
Detections ==
    { [points |-> <<<<2, 1>>, <<5, 1>>, <<5, 3>>, <<2, 3>>>>, text |-> <<"a">>, conf |-> 90],
      [points |-> <<<<0, 2>>, <<3, 2>>, <<3, 4>>, <<0, 4>>>>, text |-> <<"b">>, conf |-> 150],
      [points |-> <<<<0, 2>>, <<3, 3>>, <<3, 5>>, <<1, 4>>>>, text |-> <<" ">>, conf |-> 0] }

DetSeqs == SeqsUpTo(Detections, PerPage)

\* paddle.ocr(img, cls=True): a list whose first entry is the page's detections;
\* <<>> is a falsy result, <<d>> a result with result[0] = d (d empty: None or [])
PaddleResults == {<<>>} \cup {<<d>> : d \in DetSeqs}

\* easy.readtext(img): a list of (bbox, text, conf)
EasyResults == DetSeqs

-----------------------------------------------------------------------------
(* Blocks *)

\* "confidence": 1.0 of a native-text block, in hundredths
FullConfidence == 100

\* document_processor.py:95-109
RECURSIVE NativeFrom(_, _)
NativeFrom(raw_blocks, i) ==
    IF i > Len(raw_blocks) THEN <<>>
    ELSE LET blk == raw_blocks[i] IN
         IF Len(blk) < 5 THEN NativeFrom(raw_blocks, i + 1)
         ELSE LET clean_lines == CleanLines(blk[5]) IN
              IF clean_lines # <<>>
              THEN << [id |-> <<"b", i>>,
                       role |-> "text",
                       bbox |-> <<IntOf(blk[1]), IntOf(blk[2]), IntOf(blk[3]), IntOf(blk[4])>>,
                       text |-> JoinLines(clean_lines),
                       confidence |-> FullConfidence] >> \o NativeFrom(raw_blocks, i + 1)
              ELSE NativeFrom(raw_blocks, i + 1)

NativeBlocks(raw_blocks) == NativeFrom(raw_blocks, 1)

\* document_processor.py:163-175, 184-195, 241-253, 260-271
OcrBlocks(dets) ==
    [i \in 1..Len(dets) |->
        [id |-> <<"ocr", i>>,
         role |-> "text",
         bbox |-> BBoxOf(dets[i].points),
         text |-> dets[i].text,
         confidence |-> FloatOf(dets[i].conf)]]

\* a sort by the left edge first, then the top edge
SortKey_LeftFirst(b) == <<b.bbox[1], b.bbox[2]>>

\* key=lambda b: (b["bbox"][1], b["bbox"][0])
SortKey(b) == <<b.bbox[2], b.bbox[1]>>

KeyLess(k1, k2) == k1[1] < k2[1] \/ (k1[1] = k2[1] /\ k1[2] < k2[2])

\* list.sort is stable: a block goes behind every block whose key is not greater
RECURSIVE InsertBlock(_, _)
InsertBlock(b, sorted) ==
    IF sorted = <<>> THEN <<b>>
    ELSE IF KeyLess(SortKey(b), SortKey(Head(sorted))) THEN <<b>> \o sorted
    ELSE <<Head(sorted)>> \o InsertBlock(b, Tail(sorted))

RECURSIVE SortFrom(_, _)
SortFrom(blocks, acc) ==
    IF blocks = <<>> THEN acc ELSE SortFrom(Tail(blocks), InsertBlock(Head(blocks), acc))

\* blocks.sort(key=...)
SortBlocks(blocks) == SortFrom(blocks, <<>>)

\* OCR on every page as soon as it is enabled
ShouldOcr_WheneverEnabled(enable_ocr, blocks) == enable_ocr

\* if enable_ocr and len(blocks) == 0
ShouldOcr(enable_ocr, blocks) == enable_ocr /\ Len(blocks) = 0

-----------------------------------------------------------------------------
(* OCR engines *)

NoEngine == [lang |-> "none", req |-> "none", serial |-> 0]

\* PaddleOCR(use_angle_cls=True, lang='en', show_log=False)
PaddleLang(ocr_lang) == "en"

\* easyocr.Reader([lang], gpu=True)
EasyLang(lang) == lang

\* if _paddle_ocr is None and PADDLE_AVAILABLE / if _easy_ocr is None and EASYOCR_AVAILABLE
MustConstruct(instance, available) == instance = NoEngine /\ available

\* _get_paddle_ocr(): the instance returned, or the constructor raising
GetPaddle(ocr_lang) ==
    IF MustConstruct(_paddle_ocr, PADDLE_AVAILABLE)
    THEN { [raised |-> FALSE, made |-> paddle_made + 1,
            inst |-> [lang |-> PaddleLang(ocr_lang), req |-> ocr_lang,
                      serial |-> paddle_made + 1]],
           [raised |-> TRUE, made |-> paddle_made, inst |-> NoEngine] }
    ELSE { [raised |-> FALSE, made |-> paddle_made, inst |-> _paddle_ocr] }

\* _get_easy_ocr(lang)
GetEasy(lang) ==
    IF MustConstruct(_easy_ocr, EASYOCR_AVAILABLE)
    THEN { [raised |-> FALSE, made |-> easy_made + 1,
            inst |-> [lang |-> EasyLang(lang), req |-> lang, serial |-> easy_made + 1]],
           [raised |-> TRUE, made |-> easy_made, inst |-> NoEngine] }
    ELSE { [raised |-> FALSE, made |-> easy_made, inst |-> _easy_ocr] }

\* document_processor.py:157-161, 236-240: the first engine, when it is installed
PaddleStage(ocr_lang) ==
    IF ~PADDLE_AVAILABLE
    THEN { [kind |-> "unavailable", dets |-> <<>>, inst |-> _paddle_ocr, made |-> paddle_made] }
    ELSE UNION { IF g.raised
                 THEN { [kind |-> "ctor_raised", dets |-> <<>>, inst |-> g.inst, made |-> g.made] }
                 ELSE { [kind |-> "raised", dets |-> <<>>, inst |-> g.inst, made |-> g.made] }
                      \cup { [kind |-> IF r # <<>> /\ r[1] # <<>> THEN "dets" ELSE "empty",
                              dets |-> IF r # <<>> THEN r[1] ELSE <<>>,
                              inst |-> g.inst, made |-> g.made] : r \in PaddleResults }
               : g \in GetPaddle(ocr_lang) }

\* document_processor.py:179-182, 256-259: the second engine, when it is installed
EasyStage(lang) ==
    IF ~EASYOCR_AVAILABLE
    THEN { [kind |-> "unavailable", dets |-> <<>>, inst |-> _easy_ocr, made |-> easy_made] }
    ELSE UNION { IF g.raised
                 THEN { [kind |-> "ctor_raised", dets |-> <<>>, inst |-> g.inst, made |-> g.made] }
                 ELSE { [kind |-> "raised", dets |-> <<>>, inst |-> g.inst, made |-> g.made] }
                      \cup { [kind |-> "read", dets |-> r, inst |-> g.inst, made |-> g.made]
                             : r \in EasyResults }
               : g \in GetEasy(lang) }

EasyUntouched == [kind |-> "not_tried", dets |-> <<>>, inst |-> _easy_ocr, made |-> easy_made]

Failed(stage) == stage.kind \in {"ctor_raised", "raised"}

\* the first engine's answer is final even when it holds no detection
PaddleFound_NoFallback(p) == p.kind \in {"dets", "empty"}

\* if result and result[0]: ... return blocks   (the first engine's detections are kept)
PaddleFound(p) == p.kind = "dets"

Outcome(blocks, p, e, raised) ==
    [blocks |-> blocks, raised |-> raised,
     paddle |-> p.inst, pmade |-> p.made, plog |-> p.kind,
     easy |-> e.inst, emade |-> e.made, elog |-> e.kind]

\* _ocr_page(page, lang): every exception inside is caught and [] returned (201-203)
OcrPage(lang) ==
    { Outcome(<<>>, [kind |-> "not_tried", dets |-> <<>>, inst |-> _paddle_ocr,
                     made |-> paddle_made], EasyUntouched, FALSE) }     \* get_pixmap raises
    \cup UNION {
        IF Failed(p) THEN { Outcome(<<>>, p, EasyUntouched, FALSE) }
        ELSE IF PaddleFound(p) THEN { Outcome(OcrBlocks(p.dets), p, EasyUntouched, FALSE) }
        ELSE { IF Failed(e) THEN Outcome(<<>>, p, e, FALSE)
               ELSE Outcome(OcrBlocks(e.dets), p, e, FALSE) : e \in EasyStage(lang) }
        : p \in PaddleStage(lang) }

\* process_image_to_layout_json, lines 233-271: the same two stages, exceptions not caught
ImageOcr(ocr_lang) ==
    UNION {
        IF Failed(p) THEN { Outcome(<<>>, p, EasyUntouched, TRUE) }
        ELSE IF PaddleFound(p) THEN { Outcome(OcrBlocks(p.dets), p, EasyUntouched, FALSE) }
        ELSE { IF Failed(e) THEN Outcome(<<>>, p, e, TRUE)
               ELSE Outcome(OcrBlocks(e.dets), p, e, FALSE) : e \in EasyStage(ocr_lang) }
        : p \in PaddleStage(ocr_lang) }

-----------------------------------------------------------------------------
(* State *)

NoCall == [kind |-> "none", enable_ocr |-> FALSE, ocr_lang |-> "en", npages |-> 0]
NoLog == [src |-> "none", page |-> 0, native |-> 0, ocr |-> FALSE,
          paddle |-> "not_tried", easy |-> "not_tried", extracted |-> <<>>,
          blocks |-> <<>>]
NoResult == [num_pages |-> 0, pages |-> <<>>]
NoThreads == [t \in {} |-> 0]

Init ==
    /\ PYMUPDF_AVAILABLE \in BOOLEAN
    /\ PADDLE_AVAILABLE \in BOOLEAN
    /\ EASYOCR_AVAILABLE \in BOOLEAN
    /\ _paddle_ocr = NoEngine
    /\ _easy_ocr = NoEngine
    /\ paddle_made = 0
    /\ easy_made = 0
    /\ mode \in {"service", "cli"}
    /\ pc = "idle"
    /\ call = NoCall
    /\ page_num = 0
    /\ pages = <<>>
    /\ result = NoResult
    /\ last = NoLog
    /\ cause = "none"
    /\ cli \in { [n |-> n, i |-> 1, res |-> <<>>, out |-> {}]
                 : n \in IF mode = "cli" THEN 0..MaxDocs ELSE {0} }
    /\ th = NoThreads

flags == <<PYMUPDF_AVAILABLE, PADDLE_AVAILABLE, EASYOCR_AVAILABLE>>
engines == <<_paddle_ocr, _easy_ocr, paddle_made, easy_made>>

\* main.py:100-105, 149-153 take any arguments; cli.py:40 leaves the defaults
\* enable_ocr=True, ocr_lang="en"
CanStart ==
    \/ mode = "service" /\ pc = "idle"
    \/ mode = "cli" /\ pc = "idle" /\ cli.i <= cli.n

ArgsAllowed(enable_ocr, ocr_lang) ==
    mode = "cli" => (enable_ocr /\ ocr_lang = "en")

Begin(kind, enable_ocr, ocr_lang, npages) ==
    /\ call' = [kind |-> kind, enable_ocr |-> enable_ocr, ocr_lang |-> ocr_lang,
                npages |-> npages]
    /\ page_num' = 0
    /\ pages' = <<>>
    /\ result' = NoResult
    /\ last' = NoLog

Raise(why) ==
    /\ pc' = "raised"
    /\ cause' = why

-----------------------------------------------------------------------------
(* process_pdf_to_layout_json *)

\* lines 78-79: raise RuntimeError when PyMuPDF is not installed
PdfBackendMissing ==
    /\ CanStart
    /\ ~PYMUPDF_AVAILABLE
    /\ \E enable_ocr \in BOOLEAN, ocr_lang \in Langs :
          /\ ArgsAllowed(enable_ocr, ocr_lang)
          /\ Begin("pdf", enable_ocr, ocr_lang, 0)
    /\ Raise("pymupdf")
    /\ UNCHANGED <<flags, engines, mode, cli, th>>

\* line 84: fitz.open raises (missing, corrupted or unsupported file); lines 139-141 re-raise
PdfOpenFails ==
    /\ CanStart
    /\ PYMUPDF_AVAILABLE
    /\ \E enable_ocr \in BOOLEAN, ocr_lang \in Langs :
          /\ ArgsAllowed(enable_ocr, ocr_lang)
          /\ Begin("pdf", enable_ocr, ocr_lang, 0)
    /\ Raise("open")
    /\ UNCHANGED <<flags, engines, mode, cli, th>>

\* lines 84-85: the document opens, pages = []
PdfOpen ==
    /\ CanStart
    /\ PYMUPDF_AVAILABLE
    /\ \E enable_ocr \in BOOLEAN, ocr_lang \in Langs, n \in 0..MaxPages :
          /\ ArgsAllowed(enable_ocr, ocr_lang)
          /\ Begin("pdf", enable_ocr, ocr_lang, n)
    /\ pc' = "loop"
    /\ cause' = "none"
    /\ UNCHANGED <<flags, engines, mode, cli, th>>

InLoop == pc = "loop" /\ page_num < call.npages

\* the failing page is skipped and the loop goes on
PdfPageRaises_SkipsPage ==
    /\ pc = "loop" /\ page_num < call.npages
    /\ cause' = "native"
    /\ page_num' = page_num + 1
    /\ UNCHANGED <<flags, engines, mode, pc, call, pages, result, last, cli, th>>

\* lines 88-93: reading the page or its text layer raises; lines 139-141 re-raise
PdfPageRaises ==
    /\ InLoop
    /\ Raise("native")
    /\ UNCHANGED <<flags, engines, mode, call, page_num, pages, result, last, cli, th>>

\* the page number left 0-based
PageEntry_ZeroBased(blocks) == [page |-> page_num, blocks |-> blocks]

\* lines 121-126
PageEntry(blocks) == [page |-> page_num + 1, blocks |-> blocks]

\* lines 87-126, a page that keeps its native blocks (or OCR is not asked for)
PdfPageNative ==
    /\ InLoop
    /\ \E raw_blocks \in NativeInputs :
          LET blocks == NativeBlocks(raw_blocks) IN
          /\ ~ShouldOcr(call.enable_ocr, blocks)
          /\ pages' = Append(pages, PageEntry(SortBlocks(blocks)))
          /\ last' = [src |-> "pdf", page |-> page_num + 1, native |-> Len(blocks),
                      ocr |-> FALSE, paddle |-> "not_tried", easy |-> "not_tried",
                      extracted |-> blocks, blocks |-> SortBlocks(blocks)]
    /\ page_num' = page_num + 1
    /\ UNCHANGED <<flags, engines, mode, pc, call, result, cause, cli, th>>

\* lines 87-126, a page without native blocks, OCR enabled: _ocr_page is called
PdfPageOcr ==
    /\ InLoop
    /\ \E raw_blocks \in NativeInputs :
          LET blocks == NativeBlocks(raw_blocks) IN
          /\ ShouldOcr(call.enable_ocr, blocks)
          /\ \E o \in OcrPage(call.ocr_lang) :
                LET ocr_blocks == o.blocks
                    kept == IF ocr_blocks # <<>> THEN ocr_blocks ELSE blocks
                IN  /\ pages' = Append(pages, PageEntry(SortBlocks(kept)))
                    /\ last' = [src |-> "pdf", page |-> page_num + 1,
                                native |-> Len(blocks), ocr |-> TRUE,
                                paddle |-> o.plog, easy |-> o.elog,
                                extracted |-> kept, blocks |-> SortBlocks(kept)]
                    /\ _paddle_ocr' = o.paddle
                    /\ paddle_made' = o.pmade
                    /\ _easy_ocr' = o.easy
                    /\ easy_made' = o.emade
    /\ page_num' = page_num + 1
    /\ UNCHANGED <<flags, mode, pc, call, result, cause, cli, th>>

\* lines 128-137: close, build the result, json.dumps
PdfReturn ==
    /\ pc = "loop"
    /\ page_num = call.npages
    /\ result' = [num_pages |-> Len(pages), pages |-> pages]
    /\ pc' = "returned"
    /\ UNCHANGED <<flags, engines, mode, call, page_num, pages, last, cause, cli, th>>

-----------------------------------------------------------------------------
(* process_image_to_layout_json *)

\* lines 226-228: cv2.imread returns None, ValueError; lines 293-295 re-raise
ImageLoadFails ==
    /\ CanStart
    /\ mode = "service"
    /\ \E ocr_lang \in Langs : Begin("image", TRUE, ocr_lang, 1)
    /\ Raise("imread")
    /\ UNCHANGED <<flags, engines, mode, cli, th>>

\* lines 226-291
ImageProcess ==
    /\ CanStart
    /\ mode = "service"
    /\ \E ocr_lang \in Langs :
          /\ call' = [kind |-> "image", enable_ocr |-> TRUE, ocr_lang |-> ocr_lang,
                      npages |-> 1]
          /\ \E o \in ImageOcr(ocr_lang) :
                /\ _paddle_ocr' = o.paddle
                /\ paddle_made' = o.pmade
                /\ _easy_ocr' = o.easy
                /\ easy_made' = o.emade
                /\ last' = [src |-> "image", page |-> 1, native |-> 0, ocr |-> TRUE,
                            paddle |-> o.plog, easy |-> o.elog,
                            extracted |-> o.blocks, blocks |-> SortBlocks(o.blocks)]
                /\ IF o.raised
                   THEN /\ Raise("engine")
                        /\ result' = NoResult
                   ELSE /\ pc' = "returned"
                        /\ cause' = "none"
                        /\ result' = [num_pages |-> 1,
                                      pages |-> << [page |-> 1,
                                                    blocks |-> SortBlocks(o.blocks)] >>]
    /\ page_num' = 0
    /\ pages' = <<>>
    /\ UNCHANGED <<flags, mode, cli, th>>

-----------------------------------------------------------------------------
(* cli.py process_folder: the loop over the PDFs found.  The output name holds a *)
(* fresh uuid4 (lines 28-29), so the "already processed" branch (31-34) is never *)
(* taken and is left out.                                                        *)

\* lines 40-52 on success, 54-59 on an exception; then the next PDF
CliFinish ==
    /\ mode = "cli"
    /\ pc \in {"returned", "raised"}
    /\ cli' = [cli EXCEPT !.i = @ + 1,
                          !.res = Append(@, IF pc = "returned" THEN "success" ELSE "error"),
                          !.out = IF pc = "returned" THEN @ \cup {cli.i} ELSE @]
    /\ pc' = "idle"
    /\ call' = NoCall
    /\ page_num' = 0
    /\ pages' = <<>>
    /\ result' = NoResult
    /\ last' = NoLog
    /\ cause' = "none"
    /\ UNCHANGED <<flags, engines, mode, th>>

\* main.py:107-116, 155-164: the handler answers (the data, or HTTP 500) and its
\* locals are gone; the module globals stay
Respond ==
    /\ mode = "service"
    /\ pc \in {"returned", "raised"}
    /\ pc' = "idle"
    /\ call' = NoCall
    /\ page_num' = 0
    /\ pages' = <<>>
    /\ result' = NoResult
    /\ last' = NoLog
    /\ cause' = "none"
    /\ UNCHANGED <<flags, engines, mode, cli, th>>

Next ==
    \/ PdfBackendMissing
    \/ PdfOpenFails
    \/ PdfOpen
    \/ PdfPageRaises
    \/ PdfPageNative
    \/ PdfPageOcr
    \/ PdfReturn
    \/ ImageLoadFails
    \/ ImageProcess
    \/ CliFinish
    \/ Respond

Spec == Init /\ [][Next]_vars

-----------------------------------------------------------------------------
(* Processing calls on several threads of one process.  The core takes no lock    *)
(* (document_processor.py:44-57), so a thread can be switched out between the     *)
(* test of the global and the store of the constructed engine.  Each thread runs  *)
(* the engine part of a processing call (lines 157-182 / 236-259).                *)

Threads == 1..NumThreads

InitThreads ==
    /\ PYMUPDF_AVAILABLE = TRUE
    /\ PADDLE_AVAILABLE \in BOOLEAN
    /\ EASYOCR_AVAILABLE \in BOOLEAN
    /\ _paddle_ocr = NoEngine
    /\ _easy_ocr = NoEngine
    /\ paddle_made = 0
    /\ easy_made = 0
    /\ mode = "threads"
    /\ pc = "idle"
    /\ call = NoCall
    /\ page_num = 0
    /\ pages = <<>>
    /\ result = NoResult
    /\ last = NoLog
    /\ cause = "none"
    /\ cli = [n |-> 0, i |-> 1, res |-> <<>>, out |-> {}]
    /\ th = [t \in Threads |-> [at |-> "idle", ocr_lang |-> "en", inst |-> NoEngine]]

sequential == <<mode, pc, call, page_num, pages, result, last, cause, cli>>

Goto(t, at) == th' = [th EXCEPT ![t].at = at]

\* a processing call reaches its OCR part with the caller's ocr_lang
TBegin(t) ==
    /\ th[t].at = "idle"
    /\ \E ocr_lang \in Langs :
          th' = [th EXCEPT ![t] = [at |-> IF PADDLE_AVAILABLE THEN "paddle_test"
                                          ELSE IF EASYOCR_AVAILABLE THEN "easy_test"
                                          ELSE "idle",
                                   ocr_lang |-> ocr_lang, inst |-> NoEngine]]
    /\ UNCHANGED <<flags, engines, sequential>>

\* line 47: if _paddle_ocr is None and PADDLE_AVAILABLE
TPaddleTest(t) ==
    /\ th[t].at = "paddle_test"
    /\ IF MustConstruct(_paddle_ocr, PADDLE_AVAILABLE)
       THEN Goto(t, "paddle_make")
       ELSE th' = [th EXCEPT ![t].at = "paddle_run", ![t].inst = _paddle_ocr]
    /\ UNCHANGED <<flags, engines, sequential>>

\* lines 48-49: _paddle_ocr = PaddleOCR(...); return _paddle_ocr
TPaddleMake(t) ==
    /\ th[t].at = "paddle_make"
    /\ LET made == [lang |-> PaddleLang(th[t].ocr_lang), req |-> th[t].ocr_lang,
                    serial |-> paddle_made + 1]
       IN  /\ _paddle_ocr' = made
           /\ paddle_made' = paddle_made + 1
           /\ th' = [th EXCEPT ![t].at = "paddle_run", ![t].inst = made]
    /\ UNCHANGED <<flags, _easy_ocr, easy_made, sequential>>

\* lines 160-161 / 239-240: paddle.ocr(img); detections end the OCR part, no
\* detections lead to the second engine, an exception ends the call
TPaddleRun(t) ==
    /\ th[t].at = "paddle_run"
    /\ \E found \in BOOLEAN :
          Goto(t, IF ~found /\ EASYOCR_AVAILABLE THEN "easy_test" ELSE "idle")
    /\ UNCHANGED <<flags, engines, sequential>>

\* line 55: if _easy_ocr is None and EASYOCR_AVAILABLE
TEasyTest(t) ==
    /\ th[t].at = "easy_test"
    /\ IF MustConstruct(_easy_ocr, EASYOCR_AVAILABLE)
       THEN Goto(t, "easy_make")
       ELSE th' = [th EXCEPT ![t].at = "easy_run", ![t].inst = _easy_ocr]
    /\ UNCHANGED <<flags, engines, sequential>>

\* lines 56-57: _easy_ocr = easyocr.Reader([lang], gpu=True); return _easy_ocr
TEasyMake(t) ==
    /\ th[t].at = "easy_make"
    /\ LET made == [lang |-> EasyLang(th[t].ocr_lang), req |-> th[t].ocr_lang,
                    serial |-> easy_made + 1]
       IN  /\ _easy_ocr' = made
           /\ easy_made' = easy_made + 1
           /\ th' = [th EXCEPT ![t].at = "easy_run", ![t].inst = made]
    /\ UNCHANGED <<flags, _paddle_ocr, paddle_made, sequential>>

\* line 182 / 259: easy.readtext(img)
TEasyRun(t) ==
    /\ th[t].at = "easy_run"
    /\ Goto(t, "idle")
    /\ UNCHANGED <<flags, engines, sequential>>

NextThreads ==
    \E t \in Threads :
        \/ TBegin(t)
        \/ TPaddleTest(t)
        \/ TPaddleMake(t)
        \/ TPaddleRun(t)
        \/ TEasyTest(t)
        \/ TEasyMake(t)
        \/ TEasyRun(t)

SpecThreads == InitThreads /\ [][NextThreads]_vars

-----------------------------------------------------------------------------
(* Properties *)

EngineTried(kind) == kind \in {"ctor_raised", "raised", "empty", "dets", "read"}
EngineRaised(kind) == kind \in {"ctor_raised", "raised"}
DocumentLevel == {"pymupdf", "open", "native", "imread"}
ReturnedBlocks == { b \in UNION { {p.blocks[i] : i \in 1..Len(p.blocks)} :
                                  p \in {result.pages[k] : k \in 1..Len(result.pages)} } : TRUE }
IsNative(b) == b.id[1] = "b"

\* C1: for every page of a PDF, _ocr_page is invoked iff enable_ocr is true and the
\* native extraction gave zero blocks; no engine is touched on a page with a native
\* block, nor with enable_ocr false, and then a page without native blocks is
\* emitted with zero blocks.
C1_OcrIffEnabledAndNoNativeBlocks ==
    last.src = "pdf" =>
        /\ last.ocr <=> (call.enable_ocr /\ last.native = 0)
        /\ ~last.ocr => ~EngineTried(last.paddle) /\ ~EngineTried(last.easy)
        /\ (~call.enable_ocr /\ last.native = 0) => last.blocks = <<>>
        /\ pages[last.page].blocks = last.blocks

C1_Witness ==
    /\ last.src = "pdf" /\ last.ocr /\ last.native = 0 /\ last.blocks # <<>>
    /\ Len(pages) = 2 /\ pages[1].blocks # <<>> /\ pages[1].blocks[1].id[1] = "b"

\* C2: an error raised by an OCR engine (construction or recognition) while a page is
\* processed leaves that page without blocks and never makes the call raise, for
\* PDFs and for single images.
C2_EngineErrorNeverFailsTheCall ==
    /\ (EngineRaised(last.paddle) \/ EngineRaised(last.easy)) => last.blocks = <<>>
    /\ pc = "raised" => cause # "engine"

\* C3: no block of a returned document has empty or whitespace-only text, native or
\* OCR, PDF or image.
C3_NoBlankText ==
    pc = "returned" => \A b \in ReturnedBlocks : ~IsBlank(b.text)

\* C4: a document-level failure (backend missing, open fails, a page's native
\* extraction raises, the image cannot be loaded) makes the call raise with no JSON,
\* also after earlier pages were extracted; process_folder writes a file for exactly
\* the documents that succeeded and goes on to the remaining documents.
C4_DocumentFailureRaisesNoOutput ==
    /\ cause \in DocumentLevel => (pc = "raised" /\ result = NoResult)
    /\ pc = "raised" => result = NoResult
    /\ Len(cli.res) = cli.i - 1
    /\ \A j \in 1..cli.n : j \in cli.out <=> (j <= Len(cli.res) /\ cli.res[j] = "success")

C4_Witness ==
    /\ mode = "cli" /\ cli.n = 2 /\ cli.res = <<"error">> /\ cli.out = {}
    /\ pc = "raised" /\ cause = "native" /\ pages # <<>> /\ result = NoResult

\* C5: the second engine is tried only when the first is not installed or returned no
\* detection, and always then when it is installed; detections of the first engine
\* are the result alone; with no engine installed the result is empty and nothing
\* raises.  Same for _ocr_page and for the image path.
C5_OrderedFallback ==
    (last.src # "none" /\ last.ocr) =>
        /\ EngineTried(last.easy) => last.paddle \in {"unavailable", "empty"}
        /\ (last.paddle \in {"unavailable", "empty"} /\ EASYOCR_AVAILABLE)
              => EngineTried(last.easy)
        /\ last.paddle = "unavailable" <=> (~PADDLE_AVAILABLE /\ last.paddle # "not_tried")
        /\ last.paddle = "dets" =>
              (~EngineTried(last.easy) /\ last.blocks # <<>> /\ cause # "engine")
        /\ (~PADDLE_AVAILABLE /\ ~EASYOCR_AVAILABLE) =>
              (last.blocks = <<>> /\ cause # "engine")

C5_Witness ==
    /\ last.src = "image" /\ last.paddle = "empty" /\ last.easy = "read"
    /\ last.blocks # <<>> /\ pc = "returned"

\* C6: the blocks of an emitted page are ordered by (bbox[1], bbox[0]) ascending,
\* blocks with the same top and left edge keep their extraction order, and the page
\* holds exactly the extracted blocks.
C6_ReadingOrder ==
    LET bs == last.blocks
        ex == last.extracted
    IN  /\ \A i \in 1..(Len(bs) - 1) :
              \/ bs[i].bbox[2] < bs[i + 1].bbox[2]
              \/ bs[i].bbox[2] = bs[i + 1].bbox[2] /\ bs[i].bbox[1] < bs[i + 1].bbox[1]
              \/ /\ bs[i].bbox[2] = bs[i + 1].bbox[2]
                 /\ bs[i].bbox[1] = bs[i + 1].bbox[1]
                 /\ bs[i].id[2] < bs[i + 1].id[2]
        /\ Len(bs) = Len(ex)
        /\ \A i \in 1..Len(ex) : \E j \in 1..Len(bs) : bs[j] = ex[i]
        /\ \A i, j \in 1..Len(ex) : i < j => ex[i].id[2] < ex[j].id[2]
        /\ last.src = "pdf" => pages[last.page].blocks = bs
        /\ (last.src = "image" /\ pc = "returned") => result.pages[1].blocks = bs

C6_Witness ==
    /\ Len(last.blocks) = 2 /\ last.blocks # last.extracted
    /\ last.src = "pdf" /\ IsNative(last.blocks[1])

\* C7: each engine is constructed at most once in a process, whatever the
\* interleaving of concurrent processing calls, and every recognition call uses that
\* one instance.
C7_EnginesConstructedOnce ==
    /\ paddle_made <= 1
    /\ easy_made <= 1
    /\ \A t \in DOMAIN th : th[t].at \in {"paddle_run", "easy_run"} => th[t].inst.serial = 1

\* C8: each engine is configured with the ocr_lang of the call that caused its
\* construction.
C8_FirstLanguageWins ==
    /\ _paddle_ocr # NoEngine => _paddle_ocr.lang = _paddle_ocr.req
    /\ _easy_ocr # NoEngine => _easy_ocr.lang = _easy_ocr.req

\* C9: every block of a returned document has a confidence in [0.0, 1.0] whatever
\* score the engine reported, and a native block has exactly 1.0.
C9_ConfidenceBounds ==
    pc = "returned" =>
        \A b \in ReturnedBlocks :
            /\ 0 <= b.confidence /\ b.confidence <= FullConfidence
            /\ IsNative(b) => b.confidence = FullConfidence

\* C10: a returned document has num_pages = len(pages); a PDF has one entry per
\* source page, numbered 1..n in order, pages whose OCR failed or found nothing
\* included; an image has num_pages = 1 and one page numbered 1.
C10_PageCount ==
    /\ pc = "returned" =>
          /\ result.num_pages = Len(result.pages)
          /\ \A k \in 1..Len(result.pages) : result.pages[k].page = k
          /\ call.kind = "pdf" => Len(result.pages) = call.npages
          /\ call.kind = "image" => result.num_pages = 1
    /\ pc = "loop" =>
          /\ Len(pages) = page_num
          /\ \A k \in 1..Len(pages) : pages[k].page = k

C10_Witness ==
    /\ pc = "returned" /\ call.kind = "pdf" /\ result.num_pages = 2
    /\ result.pages[1].blocks # <<>> /\ result.pages[2].blocks = <<>>
    /\ last.page = 2 /\ last.ocr /\ EngineRaised(last.paddle)

====
